---- MODULE Spec2Model ----
(***************************************************************************)
(* The cart domain of the storefront: the Cart and CartItem tables, the    *)
(* GraphQL resolvers that read and write them (cart, addItem, removeItem,  *)
(* increaseCartItem, decreaseCartItem), findOrCreateCart, and the Cart     *)
(* field resolvers totalItems and subTotal.                                *)
(*                                                                         *)
(* Every `await prisma...` of a resolver is one step of the caller that    *)
(* runs it: the storage engine executes one statement atomically, and      *)
(* other requests may run between two awaits of the same resolver.         *)
(***************************************************************************)
EXTENDS Integers, Sequences, FiniteSets, TLC

\* ------------------------------------------------------------------ bounds

\* Stored quantities are kept within -MaxBelow .. MaxQuantity.
MaxQuantity == 2
MaxBelow == 1
\* Largest quantity an addItem input carries (the smallest is -1).
MaxInput == 1
\* Largest number of CartItem rows the table holds.
MaxRows == 2
MaxSessions == 1

\* ------------------------------------------------------------------ inputs

Callers == {"a", "b"}
SeqCallers == {"a"}

CartIds == {"c1", "c2"}
ItemIds == {"p1", "p2"}
\* The one cart and the one item that concurrent requests contend for.
RaceCartIds == {"c1"}
RaceItemIds == {"p1"}

None == "-"

\* name, description, image and price of an AddToCartInput; description and
\* image are optional (None).
Products ==
    { [name |-> "Shirt", description |-> None, image |-> None, price |-> 1000],
      [name |-> "Hat", description |-> "warm", image |-> "hat.png", price |-> 2500] }

NoProduct == [name |-> None, description |-> None, image |-> None, price |-> 0]

\* The quantity field of an AddToCartInput as the client sends it: left out,
\* an explicit null, or an Int.
QuantityInputs ==
    { [given |-> "omitted", n |-> 0], [given |-> "null", n |-> 0] }
      \cup { [given |-> "int", n |-> i] : i \in (0 - 1) .. MaxInput }

NoQuantity == [given |-> "omitted", n |-> 0]

Ops == {"cart", "addItem", "removeItem", "increaseCartItem", "decreaseCartItem"}

\* ------------------------------------------------------------------- state

VARIABLES
    cart,       \* the Cart table: for each id, the number of rows that carry it
    cartItem,   \* the CartItem table: the set of its rows
    pc,         \* per caller: the await its resolver is at
    call,       \* per caller: the operation and its input
    pre,        \* per caller: the target (the item row; for a cart query, the
                \* cart) as it was when the call arrived
    response,   \* per caller: what the finished call returned
    checkout,   \* per caller: the line_items and the session of its checkout
    sessions,   \* the checkout sessions the payment provider has created
    validation, \* a call of validateCartItems: its cart items and its outcome
    hook,       \* per webhook delivery: the request and the handler's progress
    browser     \* per client: its cartId cookie, its page and what it has sent

\* The state outside the cart tables and the cart requests.
payment == <<checkout, sessions, validation, hook, browser>>

vars == <<cart, cartItem, pc, call, pre, response,
          checkout, sessions, validation, hook, browser>>

NoCall == [op |-> None, cartId |-> None, id |-> None,
           quantity |-> NoQuantity, product |-> NoProduct]

NoRow == [exists |-> FALSE, quantity |-> 0]

NoResponse == [status |-> None, message |-> None, resolved |-> {}, items |-> <<>>,
               totalItems |-> 0, subTotal |-> 0]

NoCheckout == [line_items |-> <<>>, session |-> 0]

NoValidation == [status |-> None, message |-> None, line_items |-> <<>>]

Hooks == {"h1", "h2"}

NoHook == [pc |-> "idle", signature |-> None, type |-> None, throws |-> None,
           event |-> None, status |-> 0, fulfilled |-> FALSE]

Clients == {"x", "y"}

\* A browser that has not opened the shop: no cookie, no page, nothing sent;
\* no session prop, no cart query in flight and no cart data.
NoBrowser == [cookie |-> None, page |-> None, sent |-> {},
              session |-> 0, query |-> None, loaded |-> FALSE, items |-> <<>>]

\* No checkout, no provider session, no validation, no webhook delivery and
\* no visit yet.
PaymentInit ==
    /\ browser = [c \in Clients |-> NoBrowser]
    /\ checkout = [p \in Callers |-> NoCheckout]
    /\ sessions = <<>>
    /\ validation = [cartItems |-> <<>>, result |-> NoValidation]
    /\ hook = [h \in Hooks |-> NoHook]

\* ----------------------------------------------------------------- storage

\* Number of Cart rows with this id.
CartCount(id) == cart[id]

\* The CartItem rows with this compound id.
ItemRows(id, cartId) == {r \in cartItem : r.id = id /\ r.cartId = cartId}

\* The rows of one cart: prisma.cart.findUnique({ where: { id } }).items()
CartItems(cartId) == {r \in cartItem : r.cartId = cartId}

\* The orders in which a query without ORDER BY may return a set of rows.
Orders(rows) ==
    {s \in [1 .. Cardinality(rows) -> rows] :
        \A i, j \in 1 .. Cardinality(rows) : i # j => s[i] # s[j]}

\* A where that compares the item id alone.
MatchesId(r, input) == r.id = input.id

\* `where: { id_cartId: { id, cartId } }`: the rows a statement applies to.
Matches(r, input) == r.id = input.id /\ r.cartId = input.cartId

InRange(q) == (0 - MaxBelow) <= q /\ q <= MaxQuantity

\* ---------------------------------------------------------- pure functions

\* GraphQL input coercion of `quantity: Int = 1`: the default stands in for a
\* field the client left out; an explicit null stays null.
CoerceQuantity(q) == IF q.given = "omitted" THEN [given |-> "int", n |-> 1] ELSE q

\* JavaScript `input.quantity || 1`: null and 0 are falsy.
QuantityOrOne(q) == IF q.given = "null" \/ q.n = 0 THEN 1 ELSE q.n

\* The quantity addItem creates a row with, and increments an existing row by.
AddQuantity(q) == QuantityOrOne(CoerceQuantity(q))

\* One round of `(total, item) => total + item.quantity || 1`; `+` binds
\* tighter than `||`, so a sum of 0 is replaced by 1.
TotalStep(total, quantity) == IF total + quantity = 0 THEN 1 ELSE total + quantity

RECURSIVE ReduceTotal(_, _)
ReduceTotal(items, total) ==
    IF items = <<>> THEN total
    ELSE ReduceTotal(Tail(items), TotalStep(total, Head(items).quantity))

\* items.reduce((total, item) => total + item.quantity || 1, 0)
totalItems(items) == ReduceTotal(items, 0)

RECURSIVE ReduceAmount(_, _)
ReduceAmount(items, acc) ==
    IF items = <<>> THEN acc
    ELSE ReduceAmount(Tail(items), acc + Head(items).price * Head(items).quantity)

\* The amount of the first row only.
subTotal_ofFirst(items) ==
    IF items = <<>> THEN 0 ELSE Head(items).price * Head(items).quantity

\* items.reduce((acc, item) => acc + item.price * item.quantity, 0) ?? 0
subTotal(items) == ReduceAmount(items, 0)

\* ------------------------------------------------------- validateCartItems

\* The item ids a stored cart item may carry at checkout.
CheckoutItemIds == ItemIds \cup {"p3"}

\* The inventory: the ids "p1" and "p3" are on it, "p2" is not.
products ==
    << [id |-> "p1", title |-> "Shirt", price |-> 1000],
       [id |-> "p3", title |-> "Scarf", price |-> 4000] >>

\* What inventory.find returns when no product has the id.
Undefined == [id |-> None, title |-> None, price |-> 0]

\* `Item with id ${item.id} is not on the inventory`
NotOnInventory(id) == "Item with id " \o id \o " is not on the inventory"

\* inventory.find(({ id }) => id === item.id): the first product with the id,
\* Undefined for none.
Find(inventory, id) ==
    LET found == {i \in 1 .. Len(inventory) : inventory[i].id = id}
    IN  IF found = {} THEN Undefined
        ELSE inventory[CHOOSE i \in found : \A j \in found : i <= j]

\* A line item named after the inventory product.
LineItem_titled(product, item) ==
    [quantity |-> item.quantity, currency |-> "USD", unit_amount |-> product.price,
     name |-> product.title, description |-> item.description,
     images |-> IF item.image = None THEN <<>> ELSE <<item.image>>]

\* A line item charged at the price the cart item carries.
LineItem_storedPrice(product, item) ==
    [quantity |-> item.quantity, currency |-> "USD", unit_amount |-> item.price,
     name |-> item.name, description |-> item.description,
     images |-> IF item.image = None THEN <<>> ELSE <<item.image>>]

\* The line item pushed for an item and its inventory product.
LineItem(product, item) ==
    [quantity |-> item.quantity, currency |-> "USD", unit_amount |-> product.price,
     name |-> item.name, description |-> item.description,
     images |-> IF item.image = None THEN <<>> ELSE <<item.image>>]

\* The for loop: the items left to visit and the checkoutItems pushed so far.
\* A throw carries its message and no list.
RECURSIVE ValidateFrom(_, _, _)
ValidateFrom(inventory, cartItems, checkoutItems) ==
    IF cartItems = <<>>
    THEN [status |-> "ok", message |-> None, line_items |-> checkoutItems]
    ELSE LET item == Head(cartItems)
             product == Find(inventory, item.id)
         IN  IF product = Undefined
             THEN [NoValidation EXCEPT !.status = "error",
                                       !.message = NotOnInventory(item.id)]
             ELSE ValidateFrom(inventory, Tail(cartItems),
                               Append(checkoutItems, LineItem(product, item)))

\* A validation that passes over the items it does not find.
validateCartItems_skipUnknown(inventory, cartItems) ==
    ValidateFrom(inventory,
                 SelectSeq(cartItems, LAMBDA item : Find(inventory, item.id) # Undefined),
                 <<>>)

validateCartItems(inventory, cartItems) == ValidateFrom(inventory, cartItems, <<>>)

\* A stored cart item.
StoredRow(id, cartId, product, n) ==
    [id |-> id, cartId |-> cartId, name |-> product.name,
     description |-> product.description, image |-> product.image,
     price |-> product.price, quantity |-> n]

\* The contents a cart may have: at most MaxRows rows, one per item id, each
\* with any stored product fields and a quantity of 1 .. MaxQuantity.
Stores(cartId) ==
    UNION { { {StoredRow(id, cartId, f[id][1], f[id][2]) : id \in K} :
                f \in [K -> Products \X (1 .. MaxQuantity)] } :
            K \in {K \in SUBSET CheckoutItemIds : Cardinality(K) <= MaxRows} }

\* ------------------------------------------------------------------- calls

Init ==
    /\ cart = [id \in CartIds |-> 0]
    /\ cartItem = {}
    /\ pc = [p \in Callers |-> "idle"]
    /\ call = [p \in Callers |-> NoCall]
    /\ pre = [p \in Callers |-> NoRow]
    /\ response = [p \in Callers |-> NoResponse]
    /\ PaymentInit

RowAt(id, cartId) ==
    IF ItemRows(id, cartId) = {} THEN NoRow
    ELSE [exists |-> TRUE,
          quantity |-> (CHOOSE r \in ItemRows(id, cartId) : TRUE).quantity]

\* The first await of each resolver.
FirstStep(op) ==
    CASE op = "cart" -> "findUnique"
      [] op = "addItem" -> "findUnique"
      [] op = "removeItem" -> "delete"
      [] op = "increaseCartItem" -> "increment"
      [] op = "decreaseCartItem" -> "decrement"

\* What follows findOrCreateCart in each resolver.
AfterCart(op) == IF op = "addItem" THEN "upsert" ELSE "resolve"

Goto(p, label) == pc' = [pc EXCEPT ![p] = label]

\* An error thrown by an await ends the request with that error.
Throw(p, message) ==
    /\ pc' = [pc EXCEPT ![p] = "done"]
    /\ response' = [response EXCEPT ![p] =
                       [NoResponse EXCEPT !.status = "error", !.message = message]]

\* A request arrives: one operation with its input, over the given ids.
Call(p, cartIds, itemIds) ==
    /\ pc[p] = "idle"
    /\ \E op \in Ops, cartId \in cartIds :
          \/ /\ op = "cart"
             /\ call' = [call EXCEPT ![p] = [NoCall EXCEPT !.op = op, !.cartId = cartId]]
             /\ pre' = [pre EXCEPT ![p] = [NoRow EXCEPT !.exists = CartCount(cartId) > 0]]
             /\ Goto(p, FirstStep(op))
          \/ /\ op = "addItem"
             /\ \E id \in itemIds, q \in QuantityInputs, product \in Products :
                   /\ call' = [call EXCEPT ![p] =
                                  [op |-> op, cartId |-> cartId, id |-> id,
                                   quantity |-> q, product |-> product]]
                   /\ pre' = [pre EXCEPT ![p] = RowAt(id, cartId)]
             /\ Goto(p, FirstStep(op))
          \/ /\ op \in {"removeItem", "increaseCartItem", "decreaseCartItem"}
             /\ \E id \in itemIds :
                   /\ call' = [call EXCEPT ![p] =
                                  [NoCall EXCEPT !.op = op, !.cartId = cartId, !.id = id]]
                   /\ pre' = [pre EXCEPT ![p] = RowAt(id, cartId)]
             /\ Goto(p, FirstStep(op))
    /\ UNCHANGED <<cart, cartItem, response>>

\* ------------------------------------------------------- findOrCreateCart

\* findOrCreateCart without the lookup: it always creates.
findOrCreateCart_alwaysCreate(p) ==
    /\ pc[p] = "findUnique"
    /\ Goto(p, "create")
    /\ UNCHANGED <<cart, cartItem, call, pre, response>>

\* findOrCreateCart without the create: it goes on with or without a cart.
findOrCreateCart_findOnly(p) ==
    /\ pc[p] = "findUnique"
    /\ Goto(p, AfterCart(call[p].op))
    /\ UNCHANGED <<cart, cartItem, call, pre, response>>

\* prisma.cart.findUnique({ where: { id } }); `if (!cart)` chooses the create.
findOrCreateCart_findUnique(p) ==
    /\ pc[p] = "findUnique"
    /\ IF CartCount(call[p].cartId) > 0
       THEN Goto(p, AfterCart(call[p].op))
       ELSE Goto(p, "create")
    /\ UNCHANGED <<cart, cartItem, call, pre, response>>

\* A Cart table without the primary key.
CartIdUnchecked(id) == TRUE

\* `model Cart { id String @id }`: the primary key admits an insert only of
\* an id that no row has.
CartIdIsFree(id) == CartCount(id) = 0

\* prisma.cart.create({ data: { id } })
findOrCreateCart_create(p) ==
    /\ pc[p] = "create"
    /\ IF ~CartIdIsFree(call[p].cartId)
       THEN /\ Throw(p, "Unique constraint failed")
            /\ UNCHANGED cart
       ELSE /\ cart' = [cart EXCEPT ![call[p].cartId] = @ + 1]
            /\ Goto(p, AfterCart(call[p].op))
            /\ UNCHANGED response
    /\ UNCHANGED <<cartItem, call, pre>>

\* ----------------------------------------------------------------- addItem

\* The `create` branch of the upsert.
UpsertCreate(input) ==
    [id |-> input.id, cartId |-> input.cartId,
     name |-> input.product.name, description |-> input.product.description,
     image |-> input.product.image, price |-> input.product.price,
     quantity |-> AddQuantity(input.quantity)]

\* An update branch that also writes the input's product fields.
UpsertUpdateAll(row, input) ==
    [UpsertCreate(input) EXCEPT
        !.quantity = row.quantity + AddQuantity(input.quantity)]

\* The `update` branch of the upsert: quantity: { increment: ... }.
UpsertUpdate(row, input) ==
    [row EXCEPT !.quantity = row.quantity + AddQuantity(input.quantity)]

\* prisma.cartItem.upsert({ create, where: { id_cartId }, update }). The
\* storage client carries an upsert out as a lookup by the where, followed by
\* an insert of `create` or an update by `update`; the statements of another
\* request can run between the two.
addItem_upsert(p) ==
    /\ pc[p] = "upsert"
    /\ IF ItemRows(call[p].id, call[p].cartId) = {}
       THEN Goto(p, "insert")
       ELSE Goto(p, "update")
    /\ UNCHANGED <<cart, cartItem, call, pre, response>>

\* The insert of the upsert: `@@id([id, cartId])` rejects it when a row with
\* the compound id has appeared since the lookup.
addItem_insert(p) ==
    /\ pc[p] = "insert"
    /\ IF ItemRows(call[p].id, call[p].cartId) # {}
       THEN /\ Throw(p, "Unique constraint failed")
            /\ UNCHANGED cartItem
       ELSE /\ Cardinality(cartItem) < MaxRows
            /\ InRange(UpsertCreate(call[p]).quantity)
            /\ cartItem' = cartItem \cup {UpsertCreate(call[p])}
            /\ Goto(p, "resolve")
            /\ UNCHANGED response
    /\ UNCHANGED <<cart, call, pre>>

\* The update of the upsert, then `return cart`; it fails when the row has
\* been deleted since the lookup.
addItem_update(p) ==
    /\ pc[p] = "update"
    /\ IF ItemRows(call[p].id, call[p].cartId) = {}
       THEN /\ Throw(p, "Record to update not found")
            /\ UNCHANGED cartItem
       ELSE /\ \A r \in ItemRows(call[p].id, call[p].cartId) :
                   InRange(UpsertUpdate(r, call[p]).quantity)
            /\ cartItem' = {IF Matches(r, call[p]) THEN UpsertUpdate(r, call[p]) ELSE r :
                                r \in cartItem}
            /\ Goto(p, "resolve")
            /\ UNCHANGED response
    /\ UNCHANGED <<cart, call, pre>>

\* -------------------------------------------------------------- removeItem

\* A delete that is content with removing nothing (deleteMany).
removeItem_deleteMany(p) ==
    /\ pc[p] = "delete"
    /\ cartItem' = cartItem \ ItemRows(call[p].id, call[p].cartId)
    /\ Goto(p, "findUnique")
    /\ UNCHANGED <<cart, call, pre, response>>

\* prisma.cartItem.delete({ where: { id_cartId } }): throws when no row has
\* the compound id.
removeItem_delete(p) ==
    /\ pc[p] = "delete"
    /\ IF ItemRows(call[p].id, call[p].cartId) = {}
       THEN /\ Throw(p, "Record to delete does not exist")
            /\ UNCHANGED cartItem
       ELSE /\ cartItem' = cartItem \ ItemRows(call[p].id, call[p].cartId)
            /\ Goto(p, "findUnique")
            /\ UNCHANGED response
    /\ UNCHANGED <<cart, call, pre>>

\* -------------------------------------------------------- increaseCartItem

\* quantity: { increment: 1 }, evaluated by the storage engine on the stored
\* value.
Increment(row) == [row EXCEPT !.quantity = row.quantity + 1]

\* A read of the quantity followed by a write of the value read plus one, in
\* place of the single incrementing statement.
increaseCartItem_readThenWrite(p) ==
    /\ pc[p] = "increment"
    /\ IF ItemRows(call[p].id, call[p].cartId) = {}
       THEN /\ Throw(p, "Record to update not found")
            /\ UNCHANGED cartItem
       ELSE /\ InRange(pre[p].quantity + 1)
            /\ cartItem' = {IF Matches(r, call[p])
                             THEN [r EXCEPT !.quantity = pre[p].quantity + 1]
                             ELSE r : r \in cartItem}
            /\ Goto(p, "findUnique")
            /\ UNCHANGED response
    /\ UNCHANGED <<cart, call, pre>>

\* An update that is content with changing no row (updateMany).
increaseCartItem_updateMany(p) ==
    /\ pc[p] = "increment"
    /\ \A r \in ItemRows(call[p].id, call[p].cartId) : InRange(Increment(r).quantity)
    /\ cartItem' = {IF Matches(r, call[p]) THEN Increment(r) ELSE r : r \in cartItem}
    /\ Goto(p, "findUnique")
    /\ UNCHANGED <<cart, call, pre, response>>

\* prisma.cartItem.update({ data: { quantity: { increment: 1 } }, where }):
\* one statement; throws when no row has the compound id.
increaseCartItem_update(p) ==
    /\ pc[p] = "increment"
    /\ IF ItemRows(call[p].id, call[p].cartId) = {}
       THEN /\ Throw(p, "Record to update not found")
            /\ UNCHANGED cartItem
       ELSE /\ \A r \in ItemRows(call[p].id, call[p].cartId) :
                   InRange(Increment(r).quantity)
            /\ cartItem' = {IF Matches(r, call[p]) THEN Increment(r) ELSE r : r \in cartItem}
            /\ Goto(p, "findUnique")
            /\ UNCHANGED response
    /\ UNCHANGED <<cart, call, pre>>

\* -------------------------------------------------------- decreaseCartItem

\* quantity: { decrement: 1 }
Decrement(row) == [row EXCEPT !.quantity = row.quantity - 1]

\* The check written as `quantity === 0`.
NeedsResetAtZero(quantity) == quantity = 0

\* `if (quantity <= 0)` on the quantity the first update returned.
NeedsReset(quantity) == quantity <= 0

\* quantity: { set: 0 }
SetZero(row) == [row EXCEPT !.quantity = 0]

\* The first update: decrement, and select the new quantity.
decreaseCartItem_update(p) ==
    /\ pc[p] = "decrement"
    /\ IF ItemRows(call[p].id, call[p].cartId) = {}
       THEN /\ Throw(p, "Record to update not found")
            /\ UNCHANGED cartItem
       ELSE /\ \A r \in ItemRows(call[p].id, call[p].cartId) :
                   InRange(Decrement(r).quantity)
            /\ cartItem' = {IF Matches(r, call[p]) THEN Decrement(r) ELSE r : r \in cartItem}
            /\ IF \E r \in ItemRows(call[p].id, call[p].cartId) :
                     NeedsReset(Decrement(r).quantity)
               THEN Goto(p, "set")
               ELSE Goto(p, "findUnique")
            /\ UNCHANGED response
    /\ UNCHANGED <<cart, call, pre>>

\* The second update: quantity: { set: 0 }.
decreaseCartItem_set(p) ==
    /\ pc[p] = "set"
    /\ IF ItemRows(call[p].id, call[p].cartId) = {}
       THEN /\ Throw(p, "Record to update not found")
            /\ UNCHANGED cartItem
       ELSE /\ cartItem' = {IF Matches(r, call[p]) THEN SetZero(r) ELSE r : r \in cartItem}
            /\ Goto(p, "findUnique")
            /\ UNCHANGED response
    /\ UNCHANGED <<cart, call, pre>>

\* ---------------------------------------------------------- Cart resolvers

\* The three field resolvers run one after the other with no other request in
\* between. They only read, so the stores reached are those of the separate
\* reads below.
Cart_resolve(p) ==
    /\ pc[p] = "resolve"
    /\ response[p].resolved = {}
    /\ \E items \in Orders(CartItems(call[p].cartId)) :
          response' = [response EXCEPT ![p] =
                          [NoResponse EXCEPT !.status = "ok",
                                             !.resolved = {"items", "totalItems", "subTotal"},
                                             !.items = items,
                                             !.totalItems = totalItems(items),
                                             !.subTotal = subTotal(items)]]
    /\ Goto(p, "done")
    /\ UNCHANGED <<cart, cartItem, call, pre>>

\* The fields of the returned cart. Each field resolver reads the rows with
\* a findUnique(...).items() of its own, as the rows are at that moment,
\* unless the storage client batches the three reads into one.

\* Cart.items
Cart_items(p) ==
    /\ pc[p] = "resolve"
    /\ response[p].resolved = {}
    /\ \E items \in Orders(CartItems(call[p].cartId)) :
          response' = [response EXCEPT ![p] =
                          [@ EXCEPT !.resolved = {"items"}, !.items = items]]
    /\ UNCHANGED <<cart, cartItem, pc, call, pre>>

\* Cart.totalItems
Cart_totalItems(p) ==
    /\ pc[p] = "resolve"
    /\ response[p].resolved = {"items"}
    /\ \E items \in Orders(CartItems(call[p].cartId)) :
          response' = [response EXCEPT ![p] =
                          [@ EXCEPT !.resolved = {"items", "totalItems"},
                                    !.totalItems = totalItems(items)]]
    /\ UNCHANGED <<cart, cartItem, pc, call, pre>>

\* Cart.subTotal; with it the response is complete.
Cart_subTotal(p) ==
    /\ pc[p] = "resolve"
    /\ response[p].resolved = {"items", "totalItems"}
    /\ \E items \in Orders(CartItems(call[p].cartId)) :
          response' = [response EXCEPT ![p] =
                          [@ EXCEPT !.status = "ok",
                                    !.resolved = {"items", "totalItems", "subTotal"},
                                    !.subTotal = subTotal(items)]]
    /\ Goto(p, "done")
    /\ UNCHANGED <<cart, cartItem, call, pre>>

\* The response has been sent; the caller may issue its next request.
Return(p) ==
    /\ pc[p] = "done"
    /\ pc' = [pc EXCEPT ![p] = "idle"]
    /\ call' = [call EXCEPT ![p] = NoCall]
    /\ pre' = [pre EXCEPT ![p] = NoRow]
    /\ response' = [response EXCEPT ![p] = NoResponse]
    /\ UNCHANGED <<cart, cartItem>>

\* The awaits of the Query and Mutation resolvers.
Mutate(p) ==
    \/ findOrCreateCart_findUnique(p)
    \/ findOrCreateCart_create(p)
    \/ addItem_upsert(p)
    \/ addItem_insert(p)
    \/ addItem_update(p)
    \/ removeItem_delete(p)
    \/ increaseCartItem_update(p)
    \/ decreaseCartItem_update(p)
    \/ decreaseCartItem_set(p)

Step(p) ==
    \/ Mutate(p)
    \/ Cart_resolve(p)
    \/ Return(p)

\* ----------------------------------------------------- createCheckoutSession

\* The remediation CartError offers for an error message, None for a message
\* it only displays.
CartError(message) ==
    CASE message = "Cart is empty" -> "Keep browsing"
      [] message = "Invalid cart" -> "Empty cache and reload"
      [] OTHER -> None

\* A createCheckoutSession request arrives.
createCheckoutSession_call(p) ==
    /\ pc[p] = "idle"
    /\ Len(sessions) < MaxSessions
    /\ \E cartId \in CartIds :
          /\ call' = [call EXCEPT ![p] =
                         [NoCall EXCEPT !.op = "createCheckoutSession", !.cartId = cartId]]
          /\ pre' = [pre EXCEPT ![p] = [NoRow EXCEPT !.exists = CartCount(cartId) > 0]]
    /\ Goto(p, "checkout_cart")
    /\ UNCHANGED <<cart, cartItem, response, payment>>

\* A lookup that creates the cart it does not find, as the cart query does.
createCheckoutSession_findOrCreate(p) ==
    /\ pc[p] = "checkout_cart"
    /\ cart' = [cart EXCEPT ![call[p].cartId] = 1]
    /\ Goto(p, "checkout_items")
    /\ UNCHANGED <<cartItem, call, pre, response, payment>>

\* prisma.cart.findUnique({ where: { id: cartId } }), then the !cart check.
createCheckoutSession_findUnique(p) ==
    /\ pc[p] = "checkout_cart"
    /\ IF CartCount(call[p].cartId) = 0
       THEN Throw(p, "Invalid cart")
       ELSE Goto(p, "checkout_items") /\ UNCHANGED response
    /\ UNCHANGED <<cart, cartItem, call, pre, payment>>

\* The items are read and validated with no check that there is one.
createCheckoutSession_itemsUnchecked(p) ==
    /\ pc[p] = "checkout_items"
    /\ \E cartItems \in Orders(CartItems(call[p].cartId)) :
          LET result == validateCartItems(products, cartItems)
          IN  IF result.status = "error"
              THEN Throw(p, result.message) /\ UNCHANGED checkout
              ELSE /\ checkout' = [checkout EXCEPT ![p].line_items = result.line_items]
                   /\ Goto(p, "checkout_session")
                   /\ UNCHANGED response
    /\ UNCHANGED <<cart, cartItem, call, pre, sessions, validation, hook, browser>>

\* prisma.cart.findUnique(...).items(), the emptiness check and
\* validateCartItems(products, cartItems), up to the await of the provider.
createCheckoutSession_items(p) ==
    /\ pc[p] = "checkout_items"
    /\ \E cartItems \in Orders(CartItems(call[p].cartId)) :
          LET result == validateCartItems(products, cartItems)
          IN  IF cartItems = <<>>
              THEN Throw(p, "Cart is empty") /\ UNCHANGED checkout
              ELSE IF result.status = "error"
              THEN Throw(p, result.message) /\ UNCHANGED checkout
              ELSE /\ checkout' = [checkout EXCEPT ![p].line_items = result.line_items]
                   /\ Goto(p, "checkout_session")
                   /\ UNCHANGED response
    /\ UNCHANGED <<cart, cartItem, call, pre, sessions, validation, hook, browser>>

\* stripe.checkout.sessions.create({ line_items, metadata: { cartId } }): the
\* provider creates the session and the resolver returns its id, or the
\* provider rejects the call.
createCheckoutSession_create(p) ==
    /\ pc[p] = "checkout_session"
    /\ \/ /\ sessions' = Append(sessions, [cartId |-> call[p].cartId,
                                           line_items |-> checkout[p].line_items])
          /\ checkout' = [checkout EXCEPT ![p].session = Len(sessions) + 1]
          /\ response' = [response EXCEPT ![p] = [NoResponse EXCEPT !.status = "ok"]]
          /\ Goto(p, "done")
       \/ /\ Throw(p, "Provider error")
          /\ UNCHANGED <<checkout, sessions>>
    /\ UNCHANGED <<cart, cartItem, call, pre, validation, hook, browser>>

\* The checkout response has been sent.
createCheckoutSession_return(p) ==
    /\ Return(p)
    /\ checkout' = [checkout EXCEPT ![p] = NoCheckout]
    /\ UNCHANGED <<sessions, validation, hook, browser>>

\* ------------------------------------------------------------------ Webhook

\* The types of the events the provider sends.
EventTypes == {"checkout.session.completed", "payment_intent.succeeded"}

\* The requests that reach the endpoint: without the stripe-signature header,
\* with a signature that constructEvent accepts, or with one it rejects by
\* throwing an Error or a value of another kind.
Requests ==
    { [signature |-> s[1], throws |-> s[2], type |-> t] :
        s \in { <<"missing", "Error">>, <<"valid", None>>,
                <<"forged", "Error">>, <<"forged", "other">> },
        t \in EventTypes }

\* A request arrives; the handler awaits getRawBody(request).
Webhook_request(h) ==
    /\ hook[h].pc = "idle"
    /\ \E request \in Requests :
          hook' = [hook EXCEPT ![h] =
                      [NoHook EXCEPT !.pc = "getRawBody",
                                     !.signature = request.signature,
                                     !.throws = request.throws,
                                     !.type = request.type]]
    /\ UNCHANGED <<cart, cartItem, pc, call, pre, response, checkout, sessions, validation,
                   browser>>

\* Fulfilment for every event.
IsEvent(event) == event # None

\* event?.type === "checkout.session.completed"
IsCompleted(event) == event = "checkout.session.completed"

\* The try block: the signature check and stripe.webhooks.constructEvent; the
\* catch answers 400 for a thrown Error and lets any other thrown value pass.
Webhook_constructEvent(h) ==
    /\ hook[h].pc = "getRawBody"
    /\ hook' = [hook EXCEPT ![h] =
                   IF hook[h].signature = "valid"
                   THEN [@ EXCEPT !.pc = "handle", !.event = hook[h].type]
                   ELSE IF hook[h].throws = "Error"
                   THEN [@ EXCEPT !.pc = "responded", !.status = 400]
                   ELSE [@ EXCEPT !.pc = "handle"]]
    /\ UNCHANGED <<cart, cartItem, pc, call, pre, response, checkout, sessions, validation,
                   browser>>

\* The fulfilment of a completed session, then response.status(200).end().
Webhook_handle(h) ==
    /\ hook[h].pc = "handle"
    /\ hook' = [hook EXCEPT ![h] =
                   [@ EXCEPT !.pc = "responded", !.status = 200,
                             !.fulfilled = IsCompleted(hook[h].event)]]
    /\ UNCHANGED <<cart, cartItem, pc, call, pre, response, checkout, sessions, validation,
                   browser>>

\* The response has been sent.
Webhook_end(h) ==
    /\ hook[h].pc = "responded"
    /\ hook' = [hook EXCEPT ![h] = NoHook]
    /\ UNCHANGED <<cart, cartItem, pc, call, pre, response, checkout, sessions, validation,
                   browser>>

\* ------------------------------------------------------------------ clients

\* uuid(): a token no earlier call has returned; one per client is enough, as
\* a client that has the cookie never asks again.
Uuid(c) == IF c = "x" THEN "u1" ELSE "u2"

\* String(getCookie("cartId")): the text "undefined" when there is no cookie.
String(value) == IF value = None THEN "undefined" ELSE value

\* getCartId({ req, res }): the cookie, or a new id that is set as the cookie.
getCartId(cookie, id) == IF cookie = None THEN id ELSE cookie

\* The cartId prop of the cart page: getServerSideProps returns getCartId's.
CartPageId(cookie, id) == getCartId(cookie, id)

\* The cart query and the mutations a page sends, with the cart id each
\* carries.
Sends(ops, cartId) == {[op |-> op, cartId |-> cartId] : op \in ops}

\* /cart: getServerSideProps calls getCartId; the page queries the cart with
\* the cartId prop and the header's useCart with the cookie that was set.
Visit_cart(c) ==
    /\ LET cartId == CartPageId(browser[c].cookie, Uuid(c))
       IN  browser' = [browser EXCEPT ![c] =
                          [@ EXCEPT !.cookie = cartId,
                                    !.page = "cart",
                                    !.sent = @ \cup Sends({"cart"}, String(cartId))]]
    /\ UNCHANGED <<cart, cartItem, pc, call, pre, response, checkout, sessions, validation,
                   hook>>

\* The home page (getStaticProps) and the product page (getServerSideProps)
\* do not call getCartId; their header's useCart queries the cart with
\* String(getCookie("cartId")).
Visit_page(c) ==
    /\ \E page \in {"home", "product"} :
          browser' = [browser EXCEPT ![c] =
                         [@ EXCEPT !.page = page,
                                   !.sent = @ \cup Sends({"cart"}, String(browser[c].cookie))]]
    /\ UNCHANGED <<cart, cartItem, pc, call, pre, response, checkout, sessions, validation,
                   hook>>

\* ProductDetail: addToCart with cartId = String(getCookie("cartId")).
AddToCart(c) ==
    /\ browser[c].page = "product"
    /\ browser' = [browser EXCEPT ![c].sent =
                      @ \cup Sends({"addItem"}, String(browser[c].cookie))]
    /\ UNCHANGED <<cart, cartItem, pc, call, pre, response, checkout, sessions, validation,
                   hook>>

\* The cart page's button: createCheckoutSession with the cartId prop.
GoToCheckout(c) ==
    /\ browser[c].page = "cart"
    /\ browser' = [browser EXCEPT ![c].sent =
                      @ \cup Sends({"createCheckoutSession"}, String(browser[c].cookie))]
    /\ UNCHANGED <<cart, cartItem, pc, call, pre, response, checkout, sessions, validation,
                   hook>>

\* /thankyou?session_id=...: getServerSideProps retrieves the session when
\* session_id is a string; the session prop is null otherwise.
ThankYou_getServerSideProps(c) ==
    /\ browser[c].query = None
    /\ \E session \in 0 .. Len(sessions) :
          browser' = [browser EXCEPT ![c] =
                         [@ EXCEPT !.page = "thankyou", !.session = session,
                                   !.loaded = FALSE, !.items = <<>>]]
    /\ UNCHANGED <<cart, cartItem, pc, call, pre, response, checkout, sessions, validation,
                   hook>>

\* The callers that serve the queries of the confirmation page.
PageCallers == {"b"}

\* useGetCartQuery({ variables: { id: session.metadata.cartId }, skip: ... }):
\* the page sends the cart query unless the session has no cartId.
ThankYou_useGetCartQuery(c) ==
    /\ browser[c].page = "thankyou"
    /\ browser[c].session # 0
    /\ browser[c].query = None
    /\ ~browser[c].loaded
    /\ \E p \in PageCallers :
          LET cartId == sessions[browser[c].session].cartId
          IN  /\ pc[p] = "idle"
              /\ call' = [call EXCEPT ![p] =
                             [NoCall EXCEPT !.op = "cart", !.cartId = cartId]]
              /\ pre' = [pre EXCEPT ![p] = [NoRow EXCEPT !.exists = CartCount(cartId) > 0]]
              /\ Goto(p, FirstStep("cart"))
              /\ browser' = [browser EXCEPT ![c] =
                                [@ EXCEPT !.query = p,
                                          !.sent = @ \cup Sends({"cart"}, cartId)]]
    /\ UNCHANGED <<cart, cartItem, response, checkout, sessions, validation, hook>>

\* <CartDetail isReadOnly cart={data?.cart} />: the response of the query
\* arrives and the page shows its cart.
ThankYou_data(c) ==
    /\ browser[c].query # None
    /\ LET p == browser[c].query
       IN  /\ browser' = [browser EXCEPT ![c] =
                             [@ EXCEPT !.query = None, !.loaded = TRUE,
                                       !.items = response[p].items]]
           /\ Return(p)
    /\ UNCHANGED <<checkout, sessions, validation, hook>>

\* ---------------------------------------------------------- specifications

\* Requests of independent callers, interleaved at every await, all on one
\* cart id and one item id.
Next ==
    /\ \E p \in Callers :
          \/ Call(p, RaceCartIds, RaceItemIds)
          \/ Step(p)
    /\ UNCHANGED payment

Spec == Init /\ [][Next]_vars

\* One request at a time, over all cart and item ids.
SeqCall(p) ==
    /\ \A q \in Callers : pc[q] = "idle"
    /\ Call(p, CartIds, ItemIds)

SeqNext ==
    /\ \E p \in SeqCallers :
          \/ SeqCall(p)
          \/ Step(p)
    /\ UNCHANGED payment

SeqSpec == Init /\ [][SeqNext]_vars

\* Two increaseCartItem requests that arrive together for one existing row.
IncInit ==
    \E cartId \in CartIds, id \in ItemIds, product \in Products, n \in 0 .. MaxQuantity :
        /\ cart = [c \in CartIds |-> IF c = cartId THEN 1 ELSE 0]
        /\ cartItem = {[id |-> id, cartId |-> cartId, name |-> product.name,
                        description |-> product.description, image |-> product.image,
                        price |-> product.price, quantity |-> n]}
        /\ pc = [p \in Callers |-> "increment"]
        /\ call = [p \in Callers |->
                     [NoCall EXCEPT !.op = "increaseCartItem", !.cartId = cartId, !.id = id]]
        /\ pre = [p \in Callers |-> [exists |-> TRUE, quantity |-> n]]
        /\ response = [p \in Callers |-> NoResponse]
        /\ PaymentInit

IncNext ==
    /\ \E p \in Callers :
          \/ increaseCartItem_update(p)
          \/ findOrCreateCart_findUnique(p)
          \/ Cart_resolve(p)
    /\ UNCHANGED payment

IncSpec == IncInit /\ [][IncNext]_vars

\* An increaseCartItem and a decreaseCartItem that arrive together for one
\* existing row.
IncDecInit ==
    \E cartId \in CartIds, id \in ItemIds, product \in Products, n \in 0 .. MaxQuantity :
        /\ cart = [c \in CartIds |-> IF c = cartId THEN 1 ELSE 0]
        /\ cartItem = {StoredRow(id, cartId, product, n)}
        /\ pc = [p \in Callers |-> IF p = "a" THEN "increment" ELSE "decrement"]
        /\ call = [p \in Callers |->
                     [NoCall EXCEPT !.op = IF p = "a" THEN "increaseCartItem"
                                                      ELSE "decreaseCartItem",
                                    !.cartId = cartId, !.id = id]]
        /\ pre = [p \in Callers |-> [exists |-> TRUE, quantity |-> n]]
        /\ response = [p \in Callers |-> NoResponse]
        /\ PaymentInit

IncDecNext ==
    /\ \E p \in Callers :
          \/ increaseCartItem_update(p)
          \/ decreaseCartItem_update(p)
          \/ decreaseCartItem_set(p)
          \/ findOrCreateCart_findUnique(p)
          \/ Cart_resolve(p)
    /\ UNCHANGED payment

IncDecSpec == IncDecInit /\ [][IncDecNext]_vars

\* Two addItem requests that arrive together for one (id, cartId) of an
\* existing cart that has no such row.
AddInit ==
    \E cartId \in CartIds, id \in ItemIds :
        /\ cart = [c \in CartIds |-> IF c = cartId THEN 1 ELSE 0]
        /\ cartItem = {}
        /\ pc = [p \in Callers |-> "findUnique"]
        /\ \E input \in [Callers -> QuantityInputs \X Products] :
              call = [p \in Callers |->
                         [op |-> "addItem", cartId |-> cartId, id |-> id,
                          quantity |-> input[p][1], product |-> input[p][2]]]
        /\ pre = [p \in Callers |-> NoRow]
        /\ response = [p \in Callers |-> NoResponse]
        /\ PaymentInit

AddNext ==
    /\ \E p \in Callers :
          \/ findOrCreateCart_findUnique(p)
          \/ addItem_upsert(p)
          \/ addItem_insert(p)
          \/ addItem_update(p)
          \/ Cart_resolve(p)
    /\ UNCHANGED payment

AddSpec == AddInit /\ [][AddNext]_vars

\* One request of each caller on one cart id and one item id, interleaved at
\* every await, those of the field resolvers included.
ReadNext ==
    /\ \E p \in Callers :
          \/ Call(p, RaceCartIds, RaceItemIds)
          \/ Mutate(p)
          \/ Cart_items(p)
          \/ Cart_totalItems(p)
          \/ Cart_subTotal(p)
    /\ UNCHANGED payment

ReadSpec == Init /\ [][ReadNext]_vars

\* Checkout requests, one at a time, against a store that holds any cart
\* contents for "c1" and, with or without it, an empty cart "c2".
CheckoutInit ==
    /\ \E rows \in Stores("c1"), present \in SUBSET CartIds :
          /\ rows # {} => "c1" \in present
          /\ cart = [id \in CartIds |-> IF id \in present THEN 1 ELSE 0]
          /\ cartItem = rows
    /\ pc = [p \in Callers |-> "idle"]
    /\ call = [p \in Callers |-> NoCall]
    /\ pre = [p \in Callers |-> NoRow]
    /\ response = [p \in Callers |-> NoResponse]
    /\ PaymentInit

CheckoutNext ==
    \E p \in SeqCallers :
        \/ createCheckoutSession_call(p)
        \/ createCheckoutSession_findUnique(p)
        \/ createCheckoutSession_items(p)
        \/ createCheckoutSession_create(p)
        \/ createCheckoutSession_return(p)

CheckoutSpec == CheckoutInit /\ [][CheckoutNext]_vars

\* validateCartItems on its own: one call on the rows of a cart, read in any
\* order.
ValidateInit ==
    /\ cart = [id \in CartIds |-> 0]
    /\ cartItem = {}
    /\ pc = [p \in Callers |-> "idle"]
    /\ call = [p \in Callers |-> NoCall]
    /\ pre = [p \in Callers |-> NoRow]
    /\ response = [p \in Callers |-> NoResponse]
    /\ checkout = [p \in Callers |-> NoCheckout]
    /\ sessions = <<>>
    /\ hook = [h \in Hooks |-> NoHook]
    /\ browser = [c \in Clients |-> NoBrowser]
    /\ \E rows \in Stores("c1") : \E cartItems \in Orders(rows) :
          validation = [cartItems |-> cartItems, result |-> NoValidation]

validateCartItems_call ==
    /\ validation.result = NoValidation
    /\ validation' = [validation EXCEPT
                         !.result = validateCartItems(products, validation.cartItems)]
    /\ UNCHANGED <<cart, cartItem, pc, call, pre, response, checkout, sessions, hook,
                   browser>>

ValidateNext == validateCartItems_call

ValidateSpec == ValidateInit /\ [][ValidateNext]_vars

\* Webhook deliveries, handled independently of each other.
HookNext ==
    \E h \in Hooks :
        \/ Webhook_request(h)
        \/ Webhook_constructEvent(h)
        \/ Webhook_handle(h)
        \/ Webhook_end(h)

HookSpec == Init /\ [][HookNext]_vars

\* Clients that open pages of the shop and use them.
BrowserNext ==
    \E c \in Clients :
        \/ Visit_cart(c)
        \/ Visit_page(c)
        \/ AddToCart(c)
        \/ GoToCheckout(c)

BrowserSpec == Init /\ [][BrowserNext]_vars

\* One client that places an order and changes its cart, one request at a
\* time, and opens the confirmation page of a session at any moment.
PageClients == {"x"}

ConfirmInit ==
    /\ \E rows \in {s \in Stores("c1") : \A r \in s : r.id \in RaceItemIds},
          present \in SUBSET CartIds :
          /\ rows # {} => "c1" \in present
          /\ cart = [id \in CartIds |-> IF id \in present THEN 1 ELSE 0]
          /\ cartItem = rows
    /\ pc = [p \in Callers |-> "idle"]
    /\ call = [p \in Callers |-> NoCall]
    /\ pre = [p \in Callers |-> NoRow]
    /\ response = [p \in Callers |-> NoResponse]
    /\ PaymentInit

ConfirmNext ==
    \/ \E p \in SeqCallers :
          \/ Call(p, RaceCartIds, RaceItemIds) /\ UNCHANGED payment
          \/ Mutate(p) /\ UNCHANGED payment
          \/ Cart_resolve(p) /\ UNCHANGED payment
          \/ createCheckoutSession_call(p)
          \/ createCheckoutSession_findUnique(p)
          \/ createCheckoutSession_items(p)
          \/ createCheckoutSession_create(p)
          \/ createCheckoutSession_return(p)
    \/ \E p \in PageCallers :
          \/ findOrCreateCart_findUnique(p) /\ UNCHANGED payment
          \/ Cart_resolve(p) /\ UNCHANGED payment
    \/ \E c \in PageClients :
          \/ ThankYou_getServerSideProps(c)
          \/ ThankYou_useGetCartQuery(c)
          \/ ThankYou_data(c)

ConfirmSpec == ConfirmInit /\ [][ConfirmNext]_vars

\* ------------------------------------------------------------- properties

RECURSIVE SumQuantity(_)
SumQuantity(items) ==
    IF items = <<>> THEN 0 ELSE Head(items).quantity + SumQuantity(Tail(items))

\* The sum of quantity over a set of rows.
QuantitySum(rows) == SumQuantity(CHOOSE s \in Orders(rows) : TRUE)

Max(a, b) == IF a >= b THEN a ELSE b

\* The caller's storage writes are behind it: only findOrCreateCart and the
\* Cart fields remain, or the response has been produced.
Written(p) == pc[p] \in {"findUnique", "create", "resolve", "done"}

\* The quantity a client states in an addItem input: the Int it supplied, or
\* 1 when it left the field out.
StatedQuantity(q) == IF q.given = "int" THEN q.n ELSE 1

SameProduct(r, product) ==
    /\ r.name = product.name
    /\ r.description = product.description
    /\ r.image = product.image
    /\ r.price = product.price

\* C1: the totalItems a cart read returns equals the sum of quantity over the
\* cart's item rows (0 for no rows, 0 when every row has quantity 0).
C1_TotalItemsIsSum ==
    \A p \in Callers :
        (pc[p] = "done" /\ response[p].status = "ok")
            => response[p].totalItems = QuantitySum(CartItems(call[p].cartId))

\* C2: in every reachable state of the store, also between the two updates of
\* one decreaseCartItem, every CartItem row has quantity >= 0.
C2_QuantityNeverNegative == \A r \in cartItem : r.quantity >= 0

\* C3: decreaseCartItem on an existing row with quantity q >= 0, with no
\* other request in between, succeeds, keeps the row, and leaves quantity
\* max(q - 1, 0).
C3_DecreaseClampsAtZero ==
    \A p \in Callers :
        (/\ call[p].op = "decreaseCartItem"
         /\ pre[p].exists
         /\ pre[p].quantity >= 0
         /\ Written(p))
            => /\ response[p].status # "error"
               /\ Cardinality(ItemRows(call[p].id, call[p].cartId)) = 1
               /\ RowAt(call[p].id, call[p].cartId).quantity = Max(pre[p].quantity - 1, 0)

\* A decrease of a row that was already at 0 has completed.
C3_Witness ==
    \E p \in Callers :
        /\ call[p].op = "decreaseCartItem"
        /\ pre[p].exists
        /\ pre[p].quantity = 0
        /\ pc[p] = "done"
        /\ response[p].status = "ok"
        /\ RowAt(call[p].id, call[p].cartId).quantity = 0

\* C4: two increaseCartItem calls issued together on a row with quantity N:
\* each call that has performed its update accounts for exactly 1, so both
\* end with N + 2 under every interleaving.
C4_NoLostIncrement ==
    \A p \in Callers :
        RowAt(call[p].id, call[p].cartId).quantity
            = pre[p].quantity + Cardinality({q \in Callers : Written(q)})

\* Both calls have finished and the row holds N + 2.
C4_Witness ==
    /\ \A p \in Callers : pc[p] = "done" /\ response[p].status = "ok"
    /\ \E p \in Callers :
          RowAt(call[p].id, call[p].cartId).quantity = pre[p].quantity + 2

\* C5: addItem with quantity a and then addItem for the same (cartId, id)
\* with quantity b leaves exactly one row, with quantity a + b: the first
\* creates the row with a, and one on an existing row with quantity q leaves
\* q + b.
C5_AddTwiceSums ==
    \A p \in Callers :
        (/\ call[p].op = "addItem"
         /\ call[p].quantity.given # "null"
         /\ pc[p] \in {"resolve", "done"})
            => /\ Cardinality(ItemRows(call[p].id, call[p].cartId)) = 1
               /\ RowAt(call[p].id, call[p].cartId).quantity
                      = (IF pre[p].exists THEN pre[p].quantity ELSE 0)
                            + StatedQuantity(call[p].quantity)

\* C6: addItem for a (cartId, id) without a row inserts a row whose quantity
\* is the Int given in the input, and 1 when the input leaves it out.
C6_InsertsGivenQuantity ==
    \A p \in Callers :
        (/\ call[p].op = "addItem"
         /\ call[p].quantity.given # "null"
         /\ ~pre[p].exists
         /\ pc[p] \in {"resolve", "done"})
            => RowAt(call[p].id, call[p].cartId).quantity
                   = StatedQuantity(call[p].quantity)

\* C7: a row that appears carries the product fields of the addItem that
\* creates it, and for as long as the row exists no step changes its name,
\* description, image or price.
C7_ProductFieldsFrozen ==
    [][ /\ \A r \in cartItem : \A n \in cartItem' :
              (n.id = r.id /\ n.cartId = r.cartId)
                  => SameProduct(n, [name |-> r.name, description |-> r.description,
                                     image |-> r.image, price |-> r.price])
        /\ \A n \in cartItem' :
              ItemRows(n.id, n.cartId) = {}
                  => \E p \in Callers :
                        /\ pc[p] = "insert"
                        /\ call[p].id = n.id
                        /\ call[p].cartId = n.cartId
                        /\ SameProduct(n, call[p].product) ]_vars

\* An addItem with other product fields has updated an existing row.
C7_Witness ==
    \E p \in Callers :
        /\ call[p].op = "addItem"
        /\ pre[p].exists
        /\ pc[p] = "done"
        /\ \E r \in ItemRows(call[p].id, call[p].cartId) :
              /\ ~SameProduct(r, call[p].product)
              /\ r.quantity # pre[p].quantity

\* C8: sequential cart queries with one id: after each there is exactly one
\* cart with that id and the query returns it, and a query for a cart that
\* already exists changes neither the Cart table nor the CartItem table.
C8_FindOrCreateIdempotent ==
    [][ \A p \in Callers :
          /\ (call'[p].op = "cart" /\ pc'[p] \in {"resolve", "done"})
                => /\ cart'[call'[p].cartId] = 1
                   /\ response'[p].status # "error"
          /\ (call[p].op = "cart" /\ pre[p].exists /\ pc'[p] # pc[p])
                => UNCHANGED <<cart, cartItem>> ]_vars

\* A cart query for a cart that already existed has returned it.
C8_Witness ==
    \E p \in Callers :
        /\ call[p].op = "cart"
        /\ pre[p].exists
        /\ pc[p] = "done"
        /\ response[p].status = "ok"
        /\ CartCount(call[p].cartId) = 1

\* C9: however concurrent findOrCreateCart calls with one unused id
\* interleave, the Cart table never holds two rows with that id.
C9_OneCartPerId == \A id \in CartIds : CartCount(id) <= 1

\* Two callers both found the id unused; one has created the cart and the
\* other is about to issue its create.
C9_Witness ==
    \E p, q \in Callers :
        /\ p # q
        /\ pc[p] = "create"
        /\ call[q].cartId = call[p].cartId
        /\ ~pre[q].exists
        /\ pc[q] \in {"upsert", "insert", "update", "resolve", "done"}
        /\ response[q].status # "error"
        /\ CartCount(call[p].cartId) = 1

\* C10: no findOrCreateCart call fails: none ends with the error of a create
\* that lost against another caller's create.
C10_FindOrCreateNeverFails ==
    \A p \in Callers :
        ~(pc[p] = "done" /\ response[p].message = "Unique constraint failed")

\* C11: removeItem for a (cartId, id) that has a row deletes exactly that row
\* and touches nothing else; for one that has no row it ends with the
\* storage's not-found error, never with a success, and leaves every cart and
\* every row as it was.
C11_RemoveItemDeletesOrFails ==
    [][ \A p \in Callers :
          (call[p].op = "removeItem" /\ pc[p] = "delete" /\ pc'[p] # pc[p])
              => IF pre[p].exists
                 THEN /\ cartItem' = {r \in cartItem :
                                         ~(r.id = call[p].id /\ r.cartId = call[p].cartId)}
                      /\ Cardinality(cartItem') = Cardinality(cartItem) - 1
                      /\ response'[p].status # "error"
                      /\ cart' = cart
                 ELSE /\ pc'[p] = "done"
                      /\ response'[p].status = "error"
                      /\ response'[p].message = "Record to delete does not exist"
                      /\ UNCHANGED <<cart, cartItem>> ]_vars

\* A removeItem for a row that does not exist has ended, while the cart it
\* names holds another row.
C11_Witness ==
    \E p \in Callers :
        /\ call[p].op = "removeItem"
        /\ ~pre[p].exists
        /\ pc[p] = "done"
        /\ response[p].status = "error"
        /\ CartItems(call[p].cartId) # {}

RECURSIVE SumAmount(_)
SumAmount(items) ==
    IF items = <<>> THEN 0
    ELSE Head(items).price * Head(items).quantity + SumAmount(Tail(items))

\* The sum of price * quantity over a set of rows.
AmountSum(rows) == SumAmount(CHOOSE s \in Orders(rows) : TRUE)

\* C20: the subTotal amount a cart read returns equals the sum over the
\* cart's item rows of price * quantity, and is 0 for a cart with no rows.
C20_SubTotalIsSum ==
    \A p \in Callers :
        (pc[p] = "done" /\ response[p].status = "ok")
            => /\ response[p].subTotal = AmountSum(CartItems(call[p].cartId))
               /\ CartItems(call[p].cartId) = {} => response[p].subTotal = 0

\* A read has returned the amount of a cart with two rows of different
\* prices, one of them with quantity above 1.
C20_Witness ==
    \E p \in Callers :
        /\ pc[p] = "done"
        /\ response[p].status = "ok"
        /\ \E r, t \in CartItems(call[p].cartId) :
              /\ r.price # t.price
              /\ r.quantity > 1
              /\ t.quantity > 0
              /\ response[p].subTotal = r.price * r.quantity + t.price * t.quantity

\* The ids of the products on the inventory.
ProductIds == {products[j].id : j \in 1 .. Len(products)}

\* The validateCartItems call has returned or thrown.
Validated == validation.result.status # None

\* C12: whenever some cart item's id matches no inventory product,
\* validateCartItems fails with 'Item with id <id> is not on the inventory'
\* for such an id, whatever the price stored on that item, and hands back no
\* line items, not even those of the items before it.
C12_UnknownItemRejected ==
    LET items == validation.cartItems
        unknown == {i \in 1 .. Len(items) : items[i].id \notin ProductIds}
    IN  (Validated /\ unknown # {})
            => /\ validation.result.status = "error"
               /\ \E i \in unknown :
                     validation.result.message = NotOnInventory(items[i].id)
               /\ validation.result.line_items = <<>>

\* A list whose first item is on the inventory and whose second is not,
\* though it carries the price of an inventory product, has been rejected.
C12_Witness ==
    /\ Validated
    /\ Len(validation.cartItems) = 2
    /\ validation.cartItems[1].id \in ProductIds
    /\ validation.cartItems[2].id \notin ProductIds
    /\ \E j \in 1 .. Len(products) : products[j].price = validation.cartItems[2].price
    /\ validation.result.status = "error"

\* C13: each line item validateCartItems produces for an accepted list has as
\* unit_amount the price of the inventory product with the item's id, never
\* the price stored on the cart item when the two differ.
C13_InventoryPriceCharged ==
    LET items == validation.cartItems
        lines == validation.result.line_items
    IN  (Validated /\ validation.result.status = "ok")
            => /\ Len(lines) = Len(items)
               /\ \A i \in 1 .. Len(items) :
                     \E j \in 1 .. Len(products) :
                        /\ products[j].id = items[i].id
                        /\ lines[i].unit_amount = products[j].price
                        /\ lines[i].quantity = items[i].quantity

\* An accepted list holds an item whose stored price is not the inventory's.
C13_Witness ==
    /\ Validated
    /\ validation.result.status = "ok"
    /\ \E i \in 1 .. Len(validation.cartItems) :
          /\ validation.cartItems[i].price # validation.result.line_items[i].unit_amount
          /\ validation.cartItems[i].price # 0

\* C14: validateCartItems called with an empty list of cart items fails with
\* an 'empty cart' condition instead of returning a list of line items.
C14_EmptyListFails ==
    (Validated /\ validation.cartItems = <<>>) => validation.result.status = "error"

\* The caller's request is a createCheckoutSession.
InCheckout(p) == call[p].op = "createCheckoutSession"

\* C15: createCheckoutSession fails with exactly 'Invalid cart' when no cart
\* has the given id and with exactly 'Cart is empty' when the cart exists and
\* has no item rows; CartError matches both strings with a remediation.
C15_CheckoutFailureMessages ==
    \A p \in Callers :
        (InCheckout(p) /\ pc[p] = "done")
            => /\ ~pre[p].exists
                  => /\ response[p].status = "error"
                     /\ response[p].message = "Invalid cart"
                     /\ CartError(response[p].message) = "Empty cache and reload"
               /\ (CartCount(call[p].cartId) > 0 /\ CartItems(call[p].cartId) = {})
                  => /\ response[p].status = "error"
                     /\ response[p].message = "Cart is empty"
                     /\ CartError(response[p].message) = "Keep browsing"

\* A checkout of a cart that exists and has no rows has failed.
C15_Witness ==
    \E p \in Callers :
        /\ InCheckout(p)
        /\ pc[p] = "done"
        /\ CartCount(call[p].cartId) > 0
        /\ CartItems(call[p].cartId) = {}
        /\ response[p].message = "Cart is empty"

\* C16: a provider session is created only by a createCheckoutSession that
\* found the cart, read a non-empty item list and had validateCartItems
\* accept every item; validation comes before the provider call, and a call
\* that fails with invalid cart, empty cart or item not on the inventory
\* ends there, without a session.
C16_SessionOnlyAfterValidation ==
    [][ /\ \A p \in Callers :
              /\ (pc'[p] = "checkout_session" /\ pc[p] # "checkout_session")
                    => /\ pc[p] = "checkout_items"
                       /\ CartCount(call[p].cartId) > 0
                       /\ CartItems(call[p].cartId) # {}
                       /\ \A r \in CartItems(call[p].cartId) : r.id \in ProductIds
                       /\ Len(checkout'[p].line_items)
                              = Cardinality(CartItems(call[p].cartId))
              /\ (pc[p] \in {"checkout_cart", "checkout_items"}
                      /\ response'[p].status = "error")
                    => /\ pc'[p] = "done"
                       /\ sessions' = sessions
                       /\ checkout'[p].session = 0
        /\ sessions' # sessions
              => \E p \in Callers :
                    /\ pc[p] = "checkout_session"
                    /\ checkout[p].line_items # <<>>
                    /\ sessions' = Append(sessions,
                                          [cartId |-> call[p].cartId,
                                           line_items |-> checkout[p].line_items]) ]_vars

\* The provider holds a session of two line items and the call has returned.
C16_Witness ==
    \E p \in Callers :
        /\ InCheckout(p)
        /\ pc[p] = "done"
        /\ response[p].status = "ok"
        /\ checkout[p].session > 0
        /\ Len(sessions[checkout[p].session].line_items) = 2

\* C17: no step of a createCheckoutSession, whether it succeeds or fails,
\* changes the carts or the item rows; for an unknown id it creates no cart.
C17_CheckoutLeavesStorage ==
    [][ \A p \in Callers :
          ((InCheckout(p) \/ call'[p].op = "createCheckoutSession") /\ pc'[p] # pc[p])
              => UNCHANGED <<cart, cartItem>> ]_vars

\* A checkout for an id without a cart has failed and there is still no cart
\* with that id.
C17_Witness ==
    \E p \in Callers :
        /\ InCheckout(p)
        /\ ~pre[p].exists
        /\ pc[p] = "done"
        /\ response[p].message = "Invalid cart"
        /\ CartCount(call[p].cartId) = 0

\* C18: every webhook request without a signature header, or with a
\* signature whose verification fails with whatever is thrown, is answered
\* 400 and never reaches the fulfilment step.
C18_UnverifiedAnswered400 ==
    \A h \in Hooks :
        hook[h].signature \in {"missing", "forged"}
            => /\ ~hook[h].fulfilled
               /\ hook[h].pc = "responded" => hook[h].status = 400

\* C19: for a request that passes verification, fulfilment runs exactly when
\* the event type is 'checkout.session.completed' and the answer is 200 for
\* every event type; fulfilment never runs for a request that has not passed
\* verification.
C19_FulfilOnlyVerifiedCompleted ==
    \A h \in Hooks :
        /\ (hook[h].signature = "valid" /\ hook[h].pc = "responded")
              => /\ hook[h].status = 200
                 /\ hook[h].fulfilled <=> hook[h].type = "checkout.session.completed"
        /\ hook[h].fulfilled
              => /\ hook[h].signature = "valid"
                 /\ hook[h].event = hook[h].type
                 /\ hook[h].pc = "responded"

\* One verified delivery of a completed session has been fulfilled and one
\* verified delivery of another event type has been answered 200 without.
C19_Witness ==
    \E h, g \in Hooks :
        /\ hook[h].pc = "responded"
        /\ hook[h].fulfilled
        /\ hook[h].status = 200
        /\ hook[g].pc = "responded"
        /\ hook[g].signature = "valid"
        /\ hook[g].type # "checkout.session.completed"
        /\ hook[g].status = 200
        /\ ~hook[g].fulfilled

\* C21: in every response of a cart read, also one that a mutation of the
\* same cart overlaps, totalItems is the sum of the quantities of the items
\* returned in that response and subTotal is the sum of their
\* price * quantity.
C21_ResponseConsistent ==
    \A p \in Callers :
        (pc[p] = "done" /\ response[p].status = "ok")
            => /\ response[p].totalItems = SumQuantity(response[p].items)
               /\ response[p].subTotal = SumAmount(response[p].items)

\* The cart ids a client has sent.
SentIds(c) == {m.cartId : m \in browser[c].sent}

\* C22: a client's cart id is generated on its first visit to any page and
\* reused afterwards: every cart query and mutation it sends carries the
\* token generated for it, so two clients that never shared a cookie never
\* address the same cart id.
C22_OwnCartId ==
    /\ \A c \in Clients :
          /\ browser[c].page # None => browser[c].cookie # None
          /\ SentIds(c) \subseteq {Uuid(c)}
    /\ \A c, d \in Clients : c # d => SentIds(c) \cap SentIds(d) = {}

\* The operations that address one item row.
ItemOps == {"addItem", "increaseCartItem", "decreaseCartItem", "removeItem"}

\* C23: addItem, increaseCartItem, decreaseCartItem and removeItem applied to
\* (id, cartA) leave the row (id, cartB) of every other cart, and every
\* other item of cartA, as they were.
C23_OtherRowsUntouched ==
    [][ \A p \in Callers :
          (call[p].op \in ItemOps /\ pc'[p] # pc[p])
              => {r \in cartItem' : r.id # call[p].id \/ r.cartId # call[p].cartId}
                     = {r \in cartItem : r.id # call[p].id \/ r.cartId # call[p].cartId} ]_vars

\* An increaseCartItem on (id, cartA) has finished while another cart holds a
\* row with the same item id and another quantity.
C23_Witness ==
    \E p \in Callers :
        /\ call[p].op = "increaseCartItem"
        /\ pre[p].exists
        /\ pc[p] = "done"
        /\ response[p].status = "ok"
        /\ \E r \in cartItem :
              /\ r.id = call[p].id
              /\ r.cartId # call[p].cartId
              /\ r.quantity # RowAt(call[p].id, call[p].cartId).quantity

\* C24: every CartItem row's cartId is the id of an existing cart; once a
\* cart query or an addItem has gone through findOrCreateCart a cart with its
\* id exists, and no step removes a cart.
C24_CartExistsOnceReferenced ==
    [][ /\ \A r \in cartItem' : cart'[r.cartId] >= 1
        /\ \A id \in CartIds : cart'[id] >= cart[id]
        /\ \A p \in Callers :
              (call'[p].op \in {"cart", "addItem"}
                  /\ pc'[p] \in {"upsert", "insert", "update", "resolve", "done"})
                    => cart'[call'[p].cartId] >= 1 ]_vars

\* An addItem has created its cart and its row and has returned, and a later
\* request of the caller finds the cart.
C24_Witness ==
    \E p, q \in Callers :
        /\ call[p].op = "addItem"
        /\ pc[p] = "done"
        /\ response[p].status = "ok"
        /\ \E r \in cartItem : r.cartId = call[p].cartId
        /\ call[q].op = "cart"
        /\ pre[q].exists
        /\ pc[q] = "done"
        /\ CartCount(call[p].cartId) = 1

\* C25: an increaseCartItem and a decreaseCartItem running together on one
\* existing row with quantity q end with a quantity that one of the two
\* sequential orders gives: q (increase, then decrease) or max(q - 1, 0) + 1
\* (decrease, then increase); from 1 both are 1.
C25_IncDecSerializable ==
    (\A p \in Callers : pc[p] = "done")
        => \A p \in Callers :
              RowAt(call[p].id, call[p].cartId).quantity
                  \in {pre[p].quantity, Max(pre[p].quantity - 1, 0) + 1}

\* The input states a quantity that addItem takes as it is: an Int of at
\* least 1, or none (the default 1).
PlainQuantity(q) == q.given = "omitted" \/ (q.given = "int" /\ q.n >= 1)

\* C26: two addItem calls running together for one (id, cartId) of an
\* existing cart without such a row, with quantities a and b, both succeed
\* and leave exactly one row with quantity a + b, however they interleave.
C26_ConcurrentAddsSum ==
    (\A p \in Callers : pc[p] = "done" /\ PlainQuantity(call[p].quantity))
        => \A p, q \in Callers :
              /\ response[p].status = "ok"
              /\ Cardinality(ItemRows(call[p].id, call[p].cartId)) = 1
              /\ p # q => RowAt(call[p].id, call[p].cartId).quantity
                              = StatedQuantity(call[p].quantity)
                                    + StatedQuantity(call[q].quantity)

\* C27: increaseCartItem and decreaseCartItem on an (id, cartId) without a
\* row fail with an error at their first statement and create neither an
\* item row nor a cart: the store is as it was.
C27_UpdateOfMissingRowFails ==
    [][ \A p \in Callers :
          (/\ call[p].op \in {"increaseCartItem", "decreaseCartItem"}
           /\ ~pre[p].exists
           /\ pc'[p] # pc[p])
              => /\ pc'[p] \in {"done", "idle"}
                 /\ pc'[p] = "done" => /\ response'[p].status = "error"
                                       /\ response'[p].message = "Record to update not found"
                 /\ UNCHANGED <<cart, cartItem>> ]_vars

\* An increaseCartItem for a cart id that has no cart has failed, and there
\* is still no such cart.
C27_Witness ==
    \E p \in Callers :
        /\ call[p].op = "increaseCartItem"
        /\ ~pre[p].exists
        /\ pc[p] = "done"
        /\ response[p].status = "error"
        /\ CartCount(call[p].cartId) = 0
        /\ cartItem # {}

\* C28: on success validateCartItems returns exactly one line item per cart
\* item, in the order of the cart items, each with that item's quantity and
\* name; the call changes neither the cart items nor the inventory.
C28_OneLinePerItemInOrder ==
    [][ validation'.result.status = "ok"
          => /\ validation'.cartItems = validation.cartItems
             /\ Len(validation'.result.line_items) = Len(validation.cartItems)
             /\ \A i \in 1 .. Len(validation.cartItems) :
                   /\ validation'.result.line_items[i].quantity
                          = validation.cartItems[i].quantity
                   /\ validation'.result.line_items[i].name
                          = validation.cartItems[i].name ]_vars

\* Two items of different names and quantities, none named like its
\* inventory product, have been accepted.
C28_Witness ==
    /\ validation.result.status = "ok"
    /\ Len(validation.result.line_items) = 2
    /\ validation.result.line_items[1].name # validation.result.line_items[2].name
    /\ validation.result.line_items[1].quantity # validation.result.line_items[2].quantity
    /\ \A i \in 1 .. 2 :
          validation.result.line_items[i].name
              # Find(products, validation.cartItems[i].id).title

\* The quantities of a list of cart items or of line items, as a count per
\* quantity.
Quantities(items) ==
    [q \in {items[i].quantity : i \in DOMAIN items} |->
        Cardinality({i \in DOMAIN items : items[i].quantity = q})]

\* C29: the cart a confirmation page shows has the items of the line items
\* its session was created with, whatever has changed the cart since: as many
\* items and the same quantities (line items carry no item id).
C29_ConfirmationShowsOrder ==
    \A c \in Clients :
        browser[c].loaded
            => LET line_items == sessions[browser[c].session].line_items
               IN  /\ Len(browser[c].items) = Len(line_items)
                   /\ Quantities(browser[c].items) = Quantities(line_items)

====
